---- MODULE Spec2Model ----
(***************************************************************************)
(* ocular-services: the ServiceResponse record (src/mcp/service_response.py)*)
(* and the command executor execute_command (src/mcp/utility.py).          *)
(*                                                                         *)
(* Text is a sequence of one-character strings (plus a few fixed message   *)
(* fragments that are never split or trimmed).  Time is an integer clock   *)
(* counted in seconds.  An Optional[...] value is a set with at most one   *)
(* element: {} is None.                                                    *)
(***************************************************************************)
EXTENDS Integers, Sequences, FiniteSets, TLC

VARIABLES
    resp,          \* the ServiceResponse object handed to execute_command
    clock,         \* datetime.utcnow(), in seconds
    errLog,        \* history: the messages given to add_error by direct calls
    timerCalls,    \* history: number of direct end_process_timer calls
    pc,            \* position of the execute_command coroutine
    cmd,           \* argument cmd
    ctx,           \* argument ctx: TRUE when a progress channel is supplied
    entry,         \* history: the response as it was when the call started
    callTime,      \* history: clock when the call started
    command_name,  \* local command_name
    stdout_lines,  \* local stdout_lines
    line_count,    \* local line_count
    line,          \* local line (the loop variable)
    stderr_output, \* local stderr_output
    waitStart,     \* clock when process.wait(timeout) was entered
    proc,          \* the shell started by Popen: "none", "running", "blocked" (in a
                   \* write to a full pipe), "exited", "killed"
    exitCode,      \* the shell's exit status, once it has exited
    gc,            \* a process started by the shell command: "none", "running", "exited"
    outHolders,    \* processes holding the write end of the stdout pipe
    errHolders,    \* processes holding the write end of the stderr pipe
    stdoutPipe,    \* characters written to stdout and not yet read
    stderrPipe,    \* characters written to stderr and not yet read
    written,       \* history: every stdout write of the child, in order
    errWritten,    \* history: everything the child wrote to stderr
    spawns,        \* history: number of Popen calls that started a process
    progress,      \* history: the report_progress calls, in order
    ret,           \* what the call gave its caller: "response" (return response), "raise"
    path,          \* which return path was taken
    call,          \* the latest call of a constructor or a tool wrapper
    result,        \* what that call gave its caller
    tasks,         \* the execute_command coroutines of one event loop, by task
    running,       \* the task the event loop is executing, 0 when none
    logPath,       \* tools/util.py: the global _log_file_path ({} = None)
    logThreads,    \* the threads calling log_text: position and locals
    logged         \* history: the files log_text wrote to

vars == << resp, clock, errLog, timerCalls, pc, cmd, ctx, entry, callTime,
           command_name, stdout_lines, line_count, line, stderr_output,
           waitStart, proc, exitCode, gc, outHolders, errHolders, stdoutPipe,
           stderrPipe, written, errWritten, spawns, progress, ret, path,
           call, result, tasks, running, logPath, logThreads, logged >>

callVars == << call, result >>

loopVars == << tasks, running >>

logVars == << logPath, logThreads, logged >>

execVars == << pc, cmd, ctx, entry, callTime, command_name, stdout_lines,
               line_count, line, stderr_output, waitStart, proc, exitCode, gc,
               outHolders, errHolders, stdoutPipe, stderrPipe, written,
               errWritten, spawns, progress, ret, path >>

(***************************************************************************)
(* Bounds                                                                  *)
(***************************************************************************)
MaxClock == 3        \* the clock stops advancing here
MaxOps == 3          \* direct add_error / end_process_timer calls on a response
MaxWrites == 2       \* stdout writes of one child
MaxErrWrites == 1    \* stderr writes of one child
MaxLogCalls == 2     \* log_text calls of one thread
PipeCapacity == 3    \* characters a pipe holds before a write to it blocks

(***************************************************************************)
(* Text                                                                    *)
(***************************************************************************)
NL == "\n"
CR == "\r"

\* str.isspace() for the characters the model uses
IsSpace(c) == c \in {" ", "\t", NL, CR}

RECURSIVE LStrip(_)
LStrip(s) ==
    IF s # << >> /\ IsSpace(Head(s)) THEN LStrip(Tail(s)) ELSE s

RECURSIVE RStrip(_)
RStrip(s) ==
    IF s # << >> /\ IsSpace(s[Len(s)]) THEN RStrip(SubSeq(s, 1, Len(s) - 1)) ELSE s

\* str.strip()
Strip(s) == RStrip(LStrip(s))

\* the first whitespace-delimited token of s, << >> when there is none
RECURSIVE TakeToken(_)
TakeToken(s) ==
    IF s = << >> \/ IsSpace(Head(s)) THEN << >>
    ELSE << Head(s) >> \o TakeToken(Tail(s))

\* str.split(): the whitespace-delimited tokens of s
RECURSIVE Split(_)
Split(s) ==
    LET t == LStrip(s)
        tok == TakeToken(t)
    IN  IF t = << >> THEN << >>
        ELSE << tok >> \o Split(SubSeq(t, Len(tok) + 1, Len(t)))

\* text mode with universal newlines: "\r\n" and "\r" are read as "\n"
RECURSIVE Translate(_)
Translate(s) ==
    IF s = << >> THEN << >>
    ELSE IF Head(s) = CR
         THEN IF Len(s) >= 2 /\ s[2] = NL
              THEN << NL >> \o Translate(SubSeq(s, 3, Len(s)))
              ELSE << NL >> \o Translate(Tail(s))
         ELSE << Head(s) >> \o Translate(Tail(s))

\* "".join(parts)
RECURSIVE Concat(_)
Concat(parts) ==
    IF parts = << >> THEN << >> ELSE Head(parts) \o Concat(Tail(parts))

(***************************************************************************)
(* ServiceResponse                                                         *)
(***************************************************************************)

\* the fields in declaration order, each with whether it declares a default
Fields ==
    << [ name |-> "service",            hasDefault |-> FALSE ],
       [ name |-> "process_start_time", hasDefault |-> TRUE  ],
       [ name |-> "process_time_ms",    hasDefault |-> FALSE ],
       [ name |-> "process_end_time",   hasDefault |-> FALSE ],
       [ name |-> "target",             hasDefault |-> FALSE ],
       [ name |-> "arguments",          hasDefault |-> TRUE  ],
       [ name |-> "raw_command",        hasDefault |-> TRUE  ],
       [ name |-> "return_code",        hasDefault |-> TRUE  ],
       [ name |-> "raw_output",         hasDefault |-> TRUE  ],
       [ name |-> "raw_error",          hasDefault |-> TRUE  ] >>

FieldNames == { Fields[i].name : i \in DOMAIN Fields }

\* the record as the wrappers and the tests build it: the declared defaults,
\* process_start_time = utcnow(), process_time_ms = 0, process_end_time unset
NewResponse(service, target, now) ==
    [ service            |-> service,
      process_start_time |-> now,
      process_time_ms    |-> 0,
      process_end_time   |-> {},
      target             |-> target,
      arguments          |-> << >>,
      raw_command        |-> << >>,
      return_code        |-> 0,
      raw_output         |-> << >>,
      raw_error          |-> << >> ]

\* the dataclass decorator accepts the class only if no field without a
\* default follows a field with one (it raises TypeError otherwise)
DataclassDefined ==
    \A i, j \in DOMAIN Fields :
        (i < j /\ Fields[i].hasDefault) => Fields[j].hasDefault

\* the declared defaults; process_start_time defaults to utcnow()
FieldDefault(name, now) ==
    CASE name = "process_start_time" -> now
      [] name = "return_code" -> 0
      [] OTHER -> << >>

\* ServiceResponse(**kw): the generated __init__. kw maps keyword names to
\* values; a keyword that is no field, or a field without default that is
\* not given, raises TypeError
Construct(kw, now) ==
    IF ~DataclassDefined
       \/ \E k \in DOMAIN kw : k \notin FieldNames
       \/ \E i \in DOMAIN Fields :
              ~Fields[i].hasDefault /\ Fields[i].name \notin DOMAIN kw
    THEN [ ok |-> FALSE, error |-> "TypeError", value |-> << >> ]
    ELSE [ ok |-> TRUE, error |-> "",
           value |-> [ k \in FieldNames |->
                         IF k \in DOMAIN kw THEN kw[k] ELSE FieldDefault(k, now) ] ]

\* is_successful()
IsSuccessful(r) == r.return_code = 0

\* has_errors() looking at the return code alone
HasErrors_OnlyCode(r) == r.return_code # 0

\* has_errors(): bool(raw_error) or return_code != 0
HasErrors(r) == r.raw_error # << >> \/ r.return_code # 0

\* end_process_timer() leaving process_end_time alone
EndProcessTimer_NoEnd(r, now) ==
    [ r EXCEPT !.process_time_ms = (now - r.process_start_time) * 1000 ]

\* end_process_timer() measuring from the previous stop instead of the start
EndProcessTimer_FromLastEnd(r, now) ==
    [ r EXCEPT !.process_end_time = {now},
               !.process_time_ms =
                   IF r.process_end_time = {}
                   THEN (now - r.process_start_time) * 1000
                   ELSE (now - (CHOOSE t \in r.process_end_time : TRUE)) * 1000 ]

\* end_process_timer()
EndProcessTimer(r, now) ==
    [ r EXCEPT !.process_end_time = {now},
               !.process_time_ms = (now - r.process_start_time) * 1000 ]

\* add_error() storing 1 when no code is supplied
AddError_DefaultCode(r, error_message, code, now) ==
    EndProcessTimer(
        [ r EXCEPT !.return_code = IF code # {} THEN CHOOSE c \in code : TRUE ELSE 1,
                   !.raw_error = IF @ # << >> THEN @ \o << NL >> \o error_message
                                 ELSE error_message ],
        now)

\* add_error() without the newline of lines 113-114
AddError_NoSeparator(r, error_message, code, now) ==
    EndProcessTimer(
        [ r EXCEPT !.return_code = IF code # {} THEN CHOOSE c \in code : TRUE ELSE @,
                   !.raw_error = @ \o error_message ],
        now)

\* add_error(error_message, return_code=None); code is {} for None
AddError(r, error_message, code, now) ==
    LET r1 == IF code # {}
              THEN [ r EXCEPT !.return_code = CHOOSE c \in code : TRUE ]
              ELSE r
        r2 == IF r1.raw_error # << >>
              THEN [ r1 EXCEPT !.raw_error = @ \o << NL >> ]
              ELSE r1
        r3 == [ r2 EXCEPT !.raw_error = @ \o error_message ]
    IN  EndProcessTimer(r3, now)

\* to_dict(): each value tagged with the Python type it has
ToDict(r) ==
    [ service            |-> [ type |-> "str",      val |-> r.service ],
      process_start_time |-> [ type |-> "datetime", val |-> r.process_start_time ],
      target             |-> [ type |-> "str",      val |-> r.target ],
      arguments          |-> [ type |-> "dict",     val |-> r.arguments ],
      return_code        |-> [ type |-> "int",      val |-> r.return_code ],
      raw_command        |-> [ type |-> "str",      val |-> r.raw_command ],
      raw_output         |-> [ type |-> "str",      val |-> r.raw_output ],
      raw_error          |-> [ type |-> "str",      val |-> r.raw_error ] ]

\* the plain mapping to_dict() returns
ToDictValues(r) ==
    [ k \in DOMAIN ToDict(r) |-> ToDict(r)[k].val ]

\* data.get(key, default)
Get(data, key, default) ==
    IF key \in DOMAIN data THEN data[key] ELSE default

\* from_dict(data): cls(...) with the ten keywords the code passes
FromDict(data, now) ==
    Construct(
        [ service            |-> Get(data, "service", ""),
          process_start_time |-> Get(data, "process_start_time", now),
          process_time_ms    |-> Get(data, "process_time_ms", 0),
          process_end_time   |-> Get(data, "process_end_time", {now}),
          target             |-> Get(data, "target", ""),
          arguments          |-> Get(data, "arguments", << >>),
          return_code        |-> Get(data, "return_code", 0),
          raw_command        |-> Get(data, "raw_command", << >>),
          raw_error          |-> Get(data, "raw_error", << >>),
          structured_output  |-> Get(data, "structured_output", << >>) ],
        now)

\* json.dumps accepts these types and raises TypeError on any other
JsonSerializable(x) ==
    x.type \in {"str", "int", "float", "bool", "NoneType", "dict", "list"}

(***************************************************************************)
(* Inputs and environment                                                  *)
(***************************************************************************)
Timeout == 1         \* argument timeout, in seconds
ExpectedLines == 1   \* argument expected_lines
TimeoutCode == 124
NotInstalledCode == -1

\* messages given to add_error by direct callers
Messages == { << >>, << "x" >>, << "y" >>, << "z", NL >> }
Codes == { {}, {0}, {1} }

\* command lines
Cmds == { << " " >>, << " ", "p", " ", "-c" >>, << "q", " ", "x" >> }
\* the executables `which` finds
Installed == { << "p" >> }

\* str(e) of an exception raised by a step
ExcTexts == { << >>, << "E" >> }
IndexErrorText == << "list index out of range" >>
NotInstalledSuffix == << " is not installed on the server" >>
TimeoutMessage(t) == << "Command timed out after ", ToString(t), " seconds" >>

\* what one write of the child to stdout can be
Writes == { << "a", NL >>, << " ", "b", CR, NL >> }
ErrWrites == { << "w", CR, NL >> }
ExitCodes == { 0, 1 }

\* the responses a wrapper hands over: fresh, or with a validation error
EntryResponses ==
    { NewResponse("svc", "tgt", 0),
      AddError(NewResponse("svc", "tgt", 0), << "v" >>, {NotInstalledCode}, 0) }

\* keyword arguments a caller may give the constructor
ConstructSample ==
    [ service            |-> "ping",
      process_start_time |-> 1,
      process_time_ms    |-> 7,
      process_end_time   |-> {2},
      target             |-> "localhost",
      arguments          |-> << "count" >>,
      raw_command        |-> << "c" >>,
      return_code        |-> 1,
      raw_output         |-> << "o" >>,
      raw_error          |-> << "e" >>,
      structured_output  |-> << >> ]

\* responses whose to_dict() is given to from_dict
DictResponses ==
    { NewResponse("nmap", "tgt", 0),
      [ AddError(NewResponse("nmap", "tgt", 0), << "v" >>, {1}, 1)
            EXCEPT !.raw_output = << "o" >>, !.raw_command = << "n" >> ] }

\* requests to the tool wrappers: how the wrapper is invoked ("request": with
\* one Request object, as the route does; "positional": with the parameters
\* as separate arguments, as the unit tests do), the value of the required
\* parameter (absent, empty or a name) and the ping options, interval in
\* hundredths of a second
Styles == { "request", "positional" }
Hosts == { {}, {""}, {"localhost"} }
Counts == { 0, 1, 5, 99, 100 }
Intervals == { 0, 100, 600 }
PacketSizes == { 0, 56, 65525 }
PingRequests ==
    [ style : Styles, host : Hosts, count : Counts, interval : Intervals,
      packet_size : PacketSizes ]

NmapRequests ==
    [ style : Styles, target : Hosts, scan_type : { "fast", "-sU" },
      timeout : { 10, 240, 2000 }, ports : { {}, {"80"} }, scripts : { {} } ]

\* the names nmap_service.py binds before it defines nmap_scan
NmapNames == { "Optional", "subprocess", "re", "json", "ServiceResponse" }

\* what the subprocess.run calls of nmap_scan do: `which nmap` fails, or nmap
\* exits, or nmap does not answer within the timeout
NmapOutcomes == { "exit0", "exit1", "timeout", "notinstalled" }

\* what subprocess.run(["ping", ...]) does: the exit status of ping, no
\* answer within 60 seconds, or no ping executable
RunOutcomes == { "exit0", "exit1", "timeout", "notfound" }

\* seconds the wrapper's subprocess takes
Elapsed == { 0, 1 }

\* not host
Falsy(v) == v = {} \/ v = {""}

RequiredMessage(parameter) == << parameter, " parameter is required" >>
RaisedTypeError == [ kind |-> "raise", error |-> "TypeError", value |-> << >>,
                     status |-> 0, ran |-> 0 ]

\* no call made yet
NoCall == [ op |-> "none", args |-> << >> ]
NoResult == [ kind |-> "none", error |-> "", value |-> << >>, status |-> 0,
              ran |-> 0 ]

\* the threads of the process that call log_text
LogThreadIds == { 1, 2 }

\* argument log_file: None, or a path the caller names
LogFiles == { {}, { << "f" >> } }

\* a thread outside log_text
NoLogCall == [ pc |-> "idle", log_file |-> {}, path |-> {}, calls |-> 0 ]

\* the coroutines of one event loop
TaskIds == { 1, 2 }

\* a call not yet made, on a response of its own
NewTask(i) ==
    [ pc            |-> "idle",
      cmd           |-> << >>,
      ctx           |-> FALSE,
      resp          |-> NewResponse("svc", ToString(i), 0),
      command_name  |-> << >>,
      stdout_lines  |-> << >>,
      line_count    |-> 0,
      line          |-> << >>,
      stderr_output |-> << >>,
      proc          |-> "none",
      open          |-> FALSE,
      exitCode      |-> 0,
      stdoutPipe    |-> << >>,
      stderrPipe    |-> << >>,
      written       |-> << >>,
      errWritten    |-> << >>,
      ret           |-> "none",
      path          |-> "none" ]

(***************************************************************************)
(* Initial states                                                          *)
(***************************************************************************)
InitExec ==
    /\ pc = "idle" /\ cmd = << >> /\ ctx = FALSE /\ entry = resp /\ callTime = 0
    /\ command_name = << >> /\ stdout_lines = << >> /\ line_count = 0
    /\ line = << >> /\ stderr_output = << >> /\ waitStart = 0
    /\ proc = "none" /\ exitCode = 0 /\ gc = "none"
    /\ outHolders = {} /\ errHolders = {}
    /\ stdoutPipe = << >> /\ stderrPipe = << >>
    /\ written = << >> /\ errWritten = << >>
    /\ spawns = 0 /\ progress = << >> /\ ret = "none" /\ path = "none"
    /\ call = NoCall /\ result = NoResult
    /\ tasks = [ i \in TaskIds |-> NewTask(i) ] /\ running = 0
    /\ logPath = {} /\ logged = {}
    /\ logThreads = [ t \in LogThreadIds |-> NoLogCall ]

Init ==
    /\ resp \in EntryResponses
    /\ clock = 0 /\ errLog = << >> /\ timerCalls = 0
    /\ InitExec

InitResponse ==
    /\ resp = NewResponse("svc", "tgt", 0)
    /\ clock = 0 /\ errLog = << >> /\ timerCalls = 0
    /\ InitExec

(***************************************************************************)
(* Direct calls on a ServiceResponse                                       *)
(***************************************************************************)
\* time passes while execute_command waits: for a line of stdout, for the
\* end of stderr, for the child to exit (at most timeout)
Tick ==
    /\ clock < MaxClock
    /\ pc \in {"loop", "stderr", "wait"}
    /\ ~(pc = "wait" /\ proc = "running" /\ clock - waitStart >= Timeout)
    /\ clock' = clock + 1
    /\ UNCHANGED << resp, errLog, timerCalls, execVars >>
    /\ UNCHANGED << callVars, loopVars, logVars >>

\* time passes between direct calls on a response
TickIdle ==
    /\ clock < MaxClock
    /\ pc = "idle"
    /\ clock' = clock + 1
    /\ UNCHANGED << resp, errLog, timerCalls, execVars >>
    /\ UNCHANGED << callVars, loopVars, logVars >>

DirectAddError(m, code) ==
    /\ pc = "idle"
    /\ Len(errLog) + timerCalls < MaxOps
    /\ resp' = AddError(resp, m, code, clock)
    /\ errLog' = Append(errLog, m)
    /\ call' = [ op |-> "add_error",
                 args |-> [ error_message |-> m, return_code |-> code ] ]
    /\ UNCHANGED << clock, timerCalls, execVars, result, loopVars, logVars >>

DirectEndTimer ==
    /\ pc = "idle"
    /\ Len(errLog) + timerCalls < MaxOps
    /\ resp' = EndProcessTimer(resp, clock)
    /\ timerCalls' = timerCalls + 1
    /\ UNCHANGED << clock, errLog, execVars >>
    /\ UNCHANGED << callVars, loopVars, logVars >>

NextResponse ==
    \/ TickIdle
    \/ \E m \in Messages, code \in Codes : DirectAddError(m, code)
    \/ DirectEndTimer

SpecResponse == InitResponse /\ [][NextResponse]_vars

(***************************************************************************)
(* Calls of the constructor and of the tool wrappers, one per behaviour     *)
(***************************************************************************)
CallsUnchanged ==
    UNCHANGED << resp, errLog, timerCalls, execVars, loopVars, logVars >>

\* ServiceResponse(...) with the keywords in given
ConstructCall(given) ==
    /\ call = NoCall
    /\ LET kw == [ k \in given |-> ConstructSample[k] ]
           built == Construct(kw, clock)
       IN  /\ call' = [ op |-> "construct", args |-> kw ]
           /\ result' = [ kind   |-> IF built.ok THEN "ServiceResponse" ELSE "raise",
                          error  |-> built.error,
                          value  |-> built.value,
                          status |-> 0,
                          ran    |-> 0 ]
    /\ UNCHANGED clock
    /\ CallsUnchanged

\* ServiceResponse.from_dict(data), data being to_dict() of r restricted to
\* the keys in keep
FromDictCall(r, keep) ==
    /\ call = NoCall
    /\ LET data == [ k \in keep |-> ToDictValues(r)[k] ]
           built == FromDict(data, clock)
       IN  /\ call' = [ op |-> "from_dict", args |-> data ]
           /\ result' = [ kind   |-> IF built.ok THEN "ServiceResponse" ELSE "raise",
                          error  |-> built.error,
                          value  |-> built.value,
                          status |-> 0,
                          ran    |-> 0 ]
    /\ UNCHANGED clock
    /\ CallsUnchanged

\* ping_host: the result of one call; outcome and elapsed are what
\* subprocess.run does when it is reached. parse_ping_output is kept as the
\* fact that it was applied
PingHost(req, outcome, elapsed) ==
    IF req.style = "positional"
    THEN RaisedTypeError
    ELSE IF Falsy(req.host)
    THEN [ kind |-> "JSONResponse", error |-> "", status |-> 400, ran |-> 0,
           value |-> [ error |-> RequiredMessage("host") ] ]
    ELSE
      LET host == CHOOSE h \in req.host : TRUE
          count == IF req.count < 1 THEN 1
                   ELSE IF req.count > 99 THEN 99 ELSE req.count
          interval == IF req.interval < 1 THEN 1
                      ELSE IF req.interval > 500 THEN 500 ELSE req.interval
          packet_size == IF req.packet_size < 1 THEN 56
                         ELSE IF req.packet_size > 65524 THEN 65524
                         ELSE req.packet_size
          arguments == [ count |-> count, interval |-> interval,
                         packet_size |-> packet_size ]
          returncode == IF outcome = "exit0" THEN 0 ELSE 1
          raw_output == IF outcome = "exit0" THEN << "o", NL >> ELSE << >>
          raw_error == IF outcome = "exit0" THEN << >> ELSE << "e", NL >>
      IN  IF outcome \in {"timeout", "notfound"}
          THEN [ kind |-> "JSONResponse", error |-> "", status |-> 500,
                 ran |-> IF outcome = "timeout" THEN 1 ELSE 0,
                 value |-> [ service |-> "ping",
                             process_time_ms |-> elapsed * 1000,
                             target |-> host,
                             arguments |-> arguments,
                             return_code |-> -1,
                             raw_output |-> << >>,
                             raw_error |-> << outcome >>,
                             structured_output |-> << >> ] ]
          ELSE [ kind |-> "JSONResponse", error |-> "", status |-> 200,
                 ran |-> 1,
                 value |-> [ service |-> "ping",
                             process_time_ms |-> elapsed * 1000,
                             target |-> host,
                             arguments |-> arguments,
                             return_code |-> returncode,
                             raw_output |-> raw_output,
                             raw_error |-> raw_error,
                             structured_output |->
                                 IF returncode = 0 /\ raw_output # << >>
                                 THEN << "parsed" >> ELSE << >> ] ]

\* a caller awaits ping_host
PingHostCall(req, outcome, elapsed) ==
    /\ call = NoCall
    /\ clock + elapsed <= MaxClock
    /\ call' = [ op |-> "ping_host", args |-> req ]
    /\ result' = PingHost(req, outcome, elapsed)
    /\ clock' = IF result'.ran > 0 THEN clock + elapsed ELSE clock
    /\ CallsUnchanged

\* the keywords every ServiceResponse(...) call of nmap_scan gives
NmapKeywords(process_time_ms, target, arguments, return_code, raw_output, raw_error) ==
    [ service         |-> "nmap",
      process_time_ms |-> process_time_ms,
      target          |-> target,
      arguments       |-> arguments,
      return_code     |-> return_code,
      raw_output      |-> raw_output,
      raw_error       |-> raw_error ]

\* nmap_scan: the result of one call. The command line of lines 277-308
\* reaches subprocess.run only and no field of the result
NmapScan(req, outcome, elapsed, now) ==
    IF ~DataclassDefined
    THEN RaisedTypeError
    ELSE IF "Request" \notin NmapNames
    THEN [ RaisedTypeError EXCEPT !.error = "NameError" ]
    ELSE IF req.style = "positional"
    THEN RaisedTypeError
    ELSE
      LET timeout == IF req.timeout < 30 THEN 30
                     ELSE IF req.timeout > 1800 THEN 1800 ELSE req.timeout
          target == IF req.target = {} THEN ""
                    ELSE CHOOSE t \in req.target : TRUE
          early == Falsy(req.target)
          arguments == [ scan_type |-> req.scan_type,
                         timeout   |-> IF early THEN req.timeout ELSE timeout,
                         ports     |-> req.ports,
                         scripts   |-> req.scripts ]
          ran == IF early THEN 0 ELSE IF outcome = "notinstalled" THEN 1 ELSE 2
          ms == IF ran > 0 THEN elapsed * 1000 ELSE 0
          first ==
              IF early
              THEN NmapKeywords(0, "", << >>, -1, << >>,
                                RequiredMessage("target"))
              ELSE IF outcome = "notinstalled"
              THEN NmapKeywords(ms, target, arguments, -1, << >>,
                                << "nmap is not installed" >>)
              ELSE IF outcome = "timeout"
              THEN NmapKeywords(ms, target, arguments, -1, << >>,
                                TimeoutMessage(timeout))
              ELSE NmapKeywords(ms, target, arguments,
                                IF outcome = "exit0" THEN 0 ELSE 1,
                                IF outcome = "exit0" THEN << "o", NL >> ELSE << >>,
                                IF outcome = "exit0" THEN << >> ELSE << "e", NL >>)
          built == Construct(first, now)
          handled == Construct(
                         NmapKeywords(ms, target, arguments, -1, << >>,
                                      << built.error >>),
                         now)
      IN  IF built.ok
          THEN [ kind |-> "ServiceResponse", error |-> "", status |-> 0,
                 ran |-> ran, value |-> built.value ]
          ELSE IF outcome # "timeout" /\ handled.ok
          THEN [ kind |-> "ServiceResponse", error |-> "", status |-> 0,
                 ran |-> ran, value |-> handled.value ]
          ELSE [ RaisedTypeError EXCEPT !.ran = ran ]

\* a caller awaits nmap_scan
NmapScanCall(req, outcome, elapsed) ==
    /\ call = NoCall
    /\ clock + elapsed <= MaxClock
    /\ call' = [ op |-> "nmap_scan", args |-> req ]
    /\ result' = NmapScan(req, outcome, elapsed, clock)
    /\ clock' = IF result'.ran > 0 THEN clock + elapsed ELSE clock
    /\ CallsUnchanged

NextCalls ==
    \/ TickIdle
    \/ \E given \in SUBSET DOMAIN ConstructSample : ConstructCall(given)
    \/ \E r \in DictResponses : \E keep \in SUBSET DOMAIN ToDict(r) :
          FromDictCall(r, keep)
    \/ \E req \in PingRequests, outcome \in RunOutcomes, elapsed \in Elapsed :
          PingHostCall(req, outcome, elapsed)
    \/ \E req \in NmapRequests, outcome \in NmapOutcomes, elapsed \in Elapsed :
          NmapScanCall(req, outcome, elapsed)

SpecCalls == InitResponse /\ [][NextCalls]_vars

(***************************************************************************)
(* execute_command                                                         *)
(***************************************************************************)

\* the number of characters of s up to and including its first line ending,
\* 0 when s holds no complete line yet (eof: the write end is closed)
RECURSIVE FirstLineLen(_, _, _)
FirstLineLen(s, i, eof) ==
    IF i > Len(s) THEN (IF eof THEN Len(s) ELSE 0)
    ELSE IF s[i] = NL THEN i
    ELSE IF s[i] = CR
         THEN IF i < Len(s) THEN (IF s[i + 1] = NL THEN i + 1 ELSE i)
              ELSE (IF eof THEN i ELSE 0)
         ELSE FirstLineLen(s, i + 1, eof)

\* an exception handler that records the error and starts over
HandleException_Restarts(text) ==
    /\ resp' = AddError(resp, text, {}, clock)
    /\ ret' = ret
    /\ path' = path
    /\ pc' = "begin"

\* lines 101-103: except Exception as e
HandleException(text) ==
    /\ resp' = AddError(resp, text, {}, clock)
    /\ ret' = "response"
    /\ path' = "exception"
    /\ pc' = "done"

\* the caller awaits execute_command(cmd, response, ctx, timeout, expected_lines)
Call(c, x) ==
    /\ pc = "idle"
    /\ cmd' = c /\ ctx' = x
    /\ entry' = resp /\ callTime' = clock
    /\ pc' = "begin"
    /\ UNCHANGED << resp, clock, errLog, timerCalls, command_name, stdout_lines,
                    line_count, line, stderr_output, waitStart, proc, exitCode,
                    gc, outHolders, errHolders, stdoutPipe, stderrPipe, written,
                    errWritten, spawns, progress, ret, path >>
    /\ UNCHANGED << callVars, loopVars, logVars >>

\* lines 38-45: store the command, extract the command name
Begin ==
    /\ pc = "begin"
    /\ LET stored == [ resp EXCEPT !.raw_command = cmd ]
           tokens == Split(cmd)
       IN  IF tokens = << >>
           THEN /\ resp' = AddError(stored, IndexErrorText, {}, clock)
                /\ ret' = "response" /\ path' = "exception" /\ pc' = "done"
                /\ UNCHANGED command_name
           ELSE /\ resp' = stored
                /\ command_name' = tokens[1]
                /\ pc' = "which"
                /\ UNCHANGED << ret, path >>
    /\ UNCHANGED << clock, errLog, timerCalls, cmd, ctx, entry, callTime,
                    stdout_lines, line_count, line, stderr_output, waitStart,
                    proc, exitCode, gc, outHolders, errHolders, stdoutPipe,
                    stderrPipe, written, errWritten, spawns, progress >>
    /\ UNCHANGED << callVars, loopVars, logVars >>

\* lines 47-48: the lookup finds the executable
WhichFound ==
    /\ pc = "which"
    /\ command_name \in Installed
    /\ pc' = "spawn"
    /\ UNCHANGED << resp, clock, errLog, timerCalls, cmd, ctx, entry, callTime,
                    command_name, stdout_lines, line_count, line, stderr_output,
                    waitStart, proc, exitCode, gc, outHolders, errHolders,
                    stdoutPipe, stderrPipe, written, errWritten, spawns,
                    progress, ret, path >>
    /\ UNCHANGED << callVars, loopVars, logVars >>

\* as WhichNotFound, without the return of line 51
WhichNotFound_FallsThrough ==
    /\ pc = "which"
    /\ command_name \notin Installed
    /\ resp' = AddError(resp, command_name \o NotInstalledSuffix,
                        {NotInstalledCode}, clock)
    /\ pc' = "spawn"
    /\ UNCHANGED << clock, errLog, timerCalls, cmd, ctx, entry, callTime,
                    command_name, stdout_lines, line_count, line, stderr_output,
                    waitStart, proc, exitCode, gc, outHolders, errHolders,
                    stdoutPipe, stderrPipe, written, errWritten, spawns,
                    progress, ret, path >>
    /\ UNCHANGED << callVars, loopVars, logVars >>

\* lines 49-51: the lookup exits non-zero (CalledProcessError)
WhichNotFound ==
    /\ pc = "which"
    /\ command_name \notin Installed
    /\ resp' = AddError(resp, command_name \o NotInstalledSuffix,
                        {NotInstalledCode}, clock)
    /\ ret' = "response" /\ path' = "notfound" /\ pc' = "done"
    /\ UNCHANGED << clock, errLog, timerCalls, cmd, ctx, entry, callTime,
                    command_name, stdout_lines, line_count, line, stderr_output,
                    waitStart, proc, exitCode, gc, outHolders, errHolders,
                    stdoutPipe, stderrPipe, written, errWritten, spawns,
                    progress >>
    /\ UNCHANGED << callVars, loopVars, logVars >>

\* a step of the try block raises an Exception other than the ones handled
\* before: the lookup itself (line 48), Popen (line 54), reading a stdout
\* line (line 67), reading stderr (line 85), waiting (line 86)
StepRaises(e) ==
    /\ pc \in {"which", "spawn", "loop", "stderr", "wait"}
    /\ HandleException(e)
    /\ UNCHANGED << clock, errLog, timerCalls, cmd, ctx, entry, callTime,
                    command_name, stdout_lines, line_count, line, stderr_output,
                    waitStart, proc, exitCode, gc, outHolders, errHolders,
                    stdoutPipe, stderrPipe, written, errWritten, spawns,
                    progress >>
    /\ UNCHANGED << callVars, loopVars, logVars >>

\* lines 54-66: Popen(cmd, shell=True, stdout=PIPE, stderr=PIPE, text=True)
Spawn ==
    /\ pc = "spawn"
    /\ proc' = "running"
    /\ spawns' = spawns + 1
    /\ outHolders' = {"sh"} /\ errHolders' = {"sh"}
    /\ stdout_lines' = << >> /\ line_count' = 0
    /\ pc' = "loop"
    /\ UNCHANGED << resp, clock, errLog, timerCalls, cmd, ctx, entry, callTime,
                    command_name, line, stderr_output, waitStart, exitCode, gc,
                    stdoutPipe, stderrPipe, written, errWritten, progress, ret,
                    path >>
    /\ UNCHANGED << callVars, loopVars, logVars >>

\* as ReadLine, reporting the count of lines before this one
ReadLine_CountsFromZero ==
    /\ pc = "loop"
    /\ LET n == FirstLineLen(stdoutPipe, 1, outHolders = {})
           l == Translate(SubSeq(stdoutPipe, 1, n))
       IN  /\ n > 0
           /\ line' = l
           /\ stdoutPipe' = SubSeq(stdoutPipe, n + 1, Len(stdoutPipe))
           /\ line_count' = line_count + 1
           /\ IF ctx
              THEN /\ progress' = Append(progress,
                                         [ progress |-> line_count,
                                           total    |-> ExpectedLines,
                                           message  |-> Strip(l),
                                           outcome  |-> "pending" ])
                   /\ pc' = "progress"
                   /\ UNCHANGED stdout_lines
              ELSE /\ stdout_lines' = Append(stdout_lines, l)
                   /\ UNCHANGED << progress, pc >>
    /\ UNCHANGED << resp, clock, errLog, timerCalls, cmd, ctx, entry, callTime,
                    command_name, stderr_output, waitStart, proc, exitCode, gc,
                    outHolders, errHolders, stderrPipe, written, errWritten,
                    spawns, ret, path >>
    /\ UNCHANGED << callVars, loopVars, logVars >>

\* lines 67-77 and 82: the loop gets the next line; with a progress channel
\* it issues report_progress and suspends, without one it appends the line
ReadLine ==
    /\ pc = "loop"
    /\ LET n == FirstLineLen(stdoutPipe, 1, outHolders = {})
           l == Translate(SubSeq(stdoutPipe, 1, n))
       IN  /\ n > 0
           /\ line' = l
           /\ stdoutPipe' = SubSeq(stdoutPipe, n + 1, Len(stdoutPipe))
           /\ line_count' = line_count + 1
           /\ IF ctx
              THEN /\ progress' = Append(progress,
                                         [ progress |-> line_count + 1,
                                           total    |-> ExpectedLines,
                                           message  |-> Strip(l),
                                           outcome  |-> "pending" ])
                   /\ pc' = "progress"
                   /\ UNCHANGED stdout_lines
              ELSE /\ stdout_lines' = Append(stdout_lines, l)
                   /\ UNCHANGED << progress, pc >>
    /\ UNCHANGED << resp, clock, errLog, timerCalls, cmd, ctx, entry, callTime,
                    command_name, stderr_output, waitStart, proc, exitCode, gc,
                    outHolders, errHolders, stderrPipe, written, errWritten,
                    spawns, ret, path >>
    /\ UNCHANGED << callVars, loopVars, logVars >>

\* as ProgressCompletes, with a failed report skipping the append of line 82
ProgressCompletes_FailureSkipsLine(outcome) ==
    /\ pc = "progress"
    /\ progress' = [ progress EXCEPT ![Len(progress)].outcome = outcome ]
    /\ stdout_lines' = IF outcome = "failed" THEN stdout_lines
                       ELSE Append(stdout_lines, line)
    /\ pc' = "loop"
    /\ UNCHANGED << resp, clock, errLog, timerCalls, cmd, ctx, entry, callTime,
                    command_name, line_count, line, stderr_output, waitStart,
                    proc, exitCode, gc, outHolders, errHolders, stdoutPipe,
                    stderrPipe, written, errWritten, spawns, ret, path >>
    /\ UNCHANGED << callVars, loopVars, logVars >>

\* lines 73-82: report_progress completes, or raises an Exception that is
\* printed and dropped; either way the line is appended
ProgressCompletes(outcome) ==
    /\ pc = "progress"
    /\ progress' = [ progress EXCEPT ![Len(progress)].outcome = outcome ]
    /\ stdout_lines' = Append(stdout_lines, line)
    /\ pc' = "loop"
    /\ UNCHANGED << resp, clock, errLog, timerCalls, cmd, ctx, entry, callTime,
                    command_name, line_count, line, stderr_output, waitStart,
                    proc, exitCode, gc, outHolders, errHolders, stdoutPipe,
                    stderrPipe, written, errWritten, spawns, ret, path >>
    /\ UNCHANGED << callVars, loopVars, logVars >>

\* line 73: the task is cancelled while suspended in report_progress.
\* CancelledError is a BaseException: neither "except Exception" catches it
ProgressCancelled ==
    /\ pc = "progress"
    /\ progress' = [ progress EXCEPT ![Len(progress)].outcome = "cancelled" ]
    /\ ret' = "raise" /\ path' = "cancelled" /\ pc' = "done"
    /\ UNCHANGED << resp, clock, errLog, timerCalls, cmd, ctx, entry, callTime,
                    command_name, stdout_lines, line_count, line, stderr_output,
                    waitStart, proc, exitCode, gc, outHolders, errHolders,
                    stdoutPipe, stderrPipe, written, errWritten, spawns >>
    /\ UNCHANGED << callVars, loopVars, logVars >>

\* line 67: the stdout pipe is drained and every write end is closed
ReadEOF ==
    /\ pc = "loop"
    /\ stdoutPipe = << >> /\ outHolders = {}
    /\ pc' = "stderr"
    /\ UNCHANGED << resp, clock, errLog, timerCalls, cmd, ctx, entry, callTime,
                    command_name, stdout_lines, line_count, line, stderr_output,
                    waitStart, proc, exitCode, gc, outHolders, errHolders,
                    stdoutPipe, stderrPipe, written, errWritten, spawns,
                    progress, ret, path >>
    /\ UNCHANGED << callVars, loopVars, logVars >>

\* line 85: process.stderr.read() returns at end of file; line 86 starts
ReadStderr ==
    /\ pc = "stderr"
    /\ errHolders = {}
    /\ stderr_output' = Translate(stderrPipe)
    /\ stderrPipe' = << >>
    /\ waitStart' = clock
    /\ pc' = "wait"
    /\ UNCHANGED << resp, clock, errLog, timerCalls, cmd, ctx, entry, callTime,
                    command_name, stdout_lines, line_count, line, proc, exitCode,
                    gc, outHolders, errHolders, stdoutPipe, written, errWritten,
                    spawns, progress, ret, path >>
    /\ UNCHANGED << callVars, loopVars, logVars >>

\* as WaitReturns, without the assignment of line 89
WaitReturns_KeepsOutput ==
    /\ pc = "wait"
    /\ proc = "exited"
    /\ resp' = EndProcessTimer(
                   [ resp EXCEPT !.raw_error = stderr_output,
                                 !.return_code = exitCode ],
                   clock)
    /\ ret' = "response" /\ path' = "normal" /\ pc' = "done"
    /\ UNCHANGED << clock, errLog, timerCalls, cmd, ctx, entry, callTime,
                    command_name, stdout_lines, line_count, line, stderr_output,
                    waitStart, proc, exitCode, gc, outHolders, errHolders,
                    stdoutPipe, stderrPipe, written, errWritten, spawns,
                    progress >>
    /\ UNCHANGED << callVars, loopVars, logVars >>

\* as WaitReturns, but a non-zero exit status goes through add_error
WaitReturns_ErrorPath ==
    /\ pc = "wait"
    /\ proc = "exited"
    /\ resp' = IF exitCode # 0
               THEN AddError([ resp EXCEPT !.raw_output = Concat(stdout_lines) ],
                             stderr_output, {exitCode}, clock)
               ELSE EndProcessTimer(
                        [ resp EXCEPT !.raw_output = Concat(stdout_lines),
                                      !.raw_error = stderr_output,
                                      !.return_code = exitCode ],
                        clock)
    /\ ret' = "response" /\ path' = "normal" /\ pc' = "done"
    /\ UNCHANGED << clock, errLog, timerCalls, cmd, ctx, entry, callTime,
                    command_name, stdout_lines, line_count, line, stderr_output,
                    waitStart, proc, exitCode, gc, outHolders, errHolders,
                    stdoutPipe, stderrPipe, written, errWritten, spawns,
                    progress >>
    /\ UNCHANGED << callVars, loopVars, logVars >>

\* lines 86-94: wait returns the exit status; populate the response
WaitReturns ==
    /\ pc = "wait"
    /\ proc = "exited"
    /\ resp' = EndProcessTimer(
                   [ resp EXCEPT !.raw_output = Concat(stdout_lines),
                                 !.raw_error = stderr_output,
                                 !.return_code = exitCode ],
                   clock)
    /\ ret' = "response" /\ path' = "normal" /\ pc' = "done"
    /\ UNCHANGED << clock, errLog, timerCalls, cmd, ctx, entry, callTime,
                    command_name, stdout_lines, line_count, line, stderr_output,
                    waitStart, proc, exitCode, gc, outHolders, errHolders,
                    stdoutPipe, stderrPipe, written, errWritten, spawns,
                    progress >>
    /\ UNCHANGED << callVars, loopVars, logVars >>

\* a timeout handler that starts the command again
WaitTimesOut_Retries ==
    /\ pc = "wait"
    /\ proc = "running"
    /\ clock - waitStart >= Timeout
    /\ proc' = "killed"
    /\ outHolders' = outHolders \ {"sh"} /\ errHolders' = errHolders \ {"sh"}
    /\ pc' = "spawn"
    /\ UNCHANGED << resp, clock, errLog, timerCalls, cmd, ctx, entry, callTime,
                    command_name, stdout_lines, line_count, line, stderr_output,
                    waitStart, exitCode, gc, stdoutPipe, stderrPipe, written,
                    errWritten, spawns, progress, ret, path >>
    /\ UNCHANGED << callVars, loopVars, logVars >>

\* lines 86 and 96-99: the shell is still running when the wait has lasted
\* timeout seconds; process.kill() signals the shell only
WaitTimesOut ==
    /\ pc = "wait"
    /\ proc = "running"
    /\ clock - waitStart >= Timeout
    /\ proc' = "killed"
    /\ outHolders' = outHolders \ {"sh"} /\ errHolders' = errHolders \ {"sh"}
    /\ resp' = AddError(resp, TimeoutMessage(Timeout), {TimeoutCode}, clock)
    /\ ret' = "response" /\ path' = "timeout" /\ pc' = "done"
    /\ UNCHANGED << clock, errLog, timerCalls, cmd, ctx, entry, callTime,
                    command_name, stdout_lines, line_count, line, stderr_output,
                    waitStart, exitCode, gc, stdoutPipe, stderrPipe, written,
                    errWritten, spawns, progress >>
    /\ UNCHANGED << callVars, loopVars, logVars >>

(***************************************************************************)
(* The child: the shell Popen starts, and what the command line makes it do*)
(***************************************************************************)
ChildUnchanged ==
    /\ pc # "done"
    /\ UNCHANGED << resp, clock, errLog, timerCalls, pc, cmd, ctx, entry, callTime,
                 command_name, stdout_lines, line_count, line, stderr_output,
                 waitStart, spawns, progress, ret, path >>
    /\ UNCHANGED << callVars, loopVars, logVars >>

\* the command writes w to its stdout
ChildWrite(w) ==
    /\ proc = "running" /\ "sh" \in outHolders
    /\ Len(written) < MaxWrites
    /\ stdoutPipe' = stdoutPipe \o w
    /\ written' = Append(written, w)
    /\ ChildUnchanged
    /\ UNCHANGED << proc, exitCode, gc, outHolders, errHolders, stderrPipe,
                    errWritten >>

\* the command writes w to its stderr
ChildWriteErr(w) ==
    /\ proc = "running" /\ "sh" \in errHolders
    /\ Len(errWritten) < MaxErrWrites
    /\ Len(stderrPipe) + Len(w) <= PipeCapacity
    /\ stderrPipe' = stderrPipe \o w
    /\ errWritten' = Append(errWritten, w)
    /\ ChildUnchanged
    /\ UNCHANGED << proc, exitCode, gc, outHolders, errHolders, stdoutPipe,
                    written >>

\* the command writes w to its stderr when the pipe has no room for it: the
\* write blocks until the pipe is read. Nothing reads stderr before line 85,
\* which the loop of line 67 reaches only at end of file on stdout, a pipe
\* the blocked command holds open: the command stays blocked
ChildWriteErrBlocks(w) ==
    /\ proc = "running" /\ "sh" \in errHolders
    /\ Len(stderrPipe) + Len(w) > PipeCapacity
    /\ proc' = "blocked"
    /\ ChildUnchanged
    /\ UNCHANGED << exitCode, gc, outHolders, errHolders, stdoutPipe,
                    stderrPipe, written, errWritten >>

\* the command closes its stdout and stderr and goes on running
\* (exec >&- 2>&-)
ChildClosesPipes ==
    /\ proc = "running" /\ "sh" \in outHolders
    /\ outHolders' = outHolders \ {"sh"} /\ errHolders' = errHolders \ {"sh"}
    /\ ChildUnchanged
    /\ UNCHANGED << proc, exitCode, gc, stdoutPipe, stderrPipe, written,
                    errWritten >>

\* the command starts a process of its own, with its output redirected
\* away from the pipes (cmd2 >/dev/null 2>&1 &)
ChildForks ==
    /\ proc = "running" /\ gc = "none"
    /\ gc' = "running"
    /\ ChildUnchanged
    /\ UNCHANGED << proc, exitCode, outHolders, errHolders, stdoutPipe,
                    stderrPipe, written, errWritten >>

\* the shell exits with status c
ChildExits(c) ==
    /\ proc = "running"
    /\ proc' = "exited" /\ exitCode' = c
    /\ outHolders' = outHolders \ {"sh"} /\ errHolders' = errHolders \ {"sh"}
    /\ ChildUnchanged
    /\ UNCHANGED << gc, stdoutPipe, stderrPipe, written, errWritten >>

\* the process the command started exits
GrandchildExits ==
    /\ gc = "running"
    /\ gc' = "exited"
    /\ ChildUnchanged
    /\ UNCHANGED << proc, exitCode, outHolders, errHolders, stdoutPipe,
                    stderrPipe, written, errWritten >>

(***************************************************************************)
(* Specification                                                           *)
(***************************************************************************)
Next ==
    \/ Tick
    \/ \E c \in Cmds, x \in BOOLEAN : Call(c, x)
    \/ Begin
    \/ WhichFound
    \/ WhichNotFound
    \/ \E e \in ExcTexts : StepRaises(e)
    \/ Spawn
    \/ ReadLine
    \/ \E o \in {"ok", "failed"} : ProgressCompletes(o)
    \/ ProgressCancelled
    \/ ReadEOF
    \/ ReadStderr
    \/ WaitReturns
    \/ WaitTimesOut
    \/ \E w \in Writes : ChildWrite(w)
    \/ \E w \in ErrWrites : ChildWriteErr(w)
    \/ \E w \in ErrWrites : ChildWriteErrBlocks(w)
    \/ ChildClosesPipes
    \/ ChildForks
    \/ \E c \in ExitCodes : ChildExits(c)
    \/ GrandchildExits

Spec == Init /\ [][Next]_vars

\* the event loop runs execute_command whenever it can go on, the clock
\* advances, and a process that is not blocked goes on to exit. Nothing
\* promises that an awaited report_progress completes, nor that a step raises
ProgramFairness ==
    /\ WF_vars(Tick)
    /\ WF_vars(Begin)
    /\ WF_vars(WhichFound)
    /\ WF_vars(WhichNotFound)
    /\ WF_vars(Spawn)
    /\ WF_vars(ReadLine)
    /\ WF_vars(ReadEOF)
    /\ WF_vars(ReadStderr)
    /\ WF_vars(WaitReturns)
    /\ WF_vars(WaitTimesOut)

ChildFairness ==
    /\ WF_vars(\E c \in ExitCodes : ChildExits(c))
    /\ WF_vars(GrandchildExits)

\* the progress channel is free to answer a report or never to
SpecSlowSink == Spec /\ ProgramFairness /\ ChildFairness

\* the progress channel answers every report
SinkFairness == WF_vars(\E o \in {"ok", "failed"} : ProgressCompletes(o))

SpecLive == Spec /\ ProgramFairness /\ ChildFairness /\ SinkFairness

(***************************************************************************)
(* Several execute_command calls on one event loop. A coroutine runs from  *)
(* one suspension point to the next without interruption; the only         *)
(* suspension point of execute_command is the await of line 73. Every      *)
(* local of the function lives in the task's own record.                   *)
(***************************************************************************)
TasksUnchanged ==
    UNCHANGED << resp, clock, errLog, timerCalls, execVars, callVars, logVars >>

\* line 82 appending to a list all calls share
AppendLine_Shared(ts, i, l) ==
    [ j \in TaskIds |-> [ ts[j] EXCEPT !.stdout_lines = Append(@, l) ] ]

\* line 82: stdout_lines.append(line)
AppendLine(ts, i, l) ==
    [ ts EXCEPT ![i].stdout_lines = Append(@, l) ]

\* the task returns the response by an error path
TaskFails(t, r, via) ==
    [ t EXCEPT !.resp = r, !.ret = "response", !.path = via, !.pc = "done" ]

\* a caller creates the coroutine execute_command(c, response_i, ctx)
TCall(i, c, x) ==
    /\ tasks[i].pc = "idle"
    /\ tasks' = [ tasks EXCEPT ![i].pc = "begin", ![i].cmd = c, ![i].ctx = x ]
    /\ UNCHANGED running
    /\ TasksUnchanged

\* lines 36-62: the loop starts the coroutine, which stores the command,
\* looks the executable up and spawns the command
TStart(i) ==
    /\ tasks[i].pc = "begin"
    /\ running = 0
    /\ LET t == tasks[i]
           stored == [ t.resp EXCEPT !.raw_command = t.cmd ]
           tokens == Split(t.cmd)
       IN  IF tokens = << >>
           THEN /\ tasks' = [ tasks EXCEPT ![i] =
                      TaskFails(t, AddError(stored, IndexErrorText, {}, clock),
                                "exception") ]
                /\ running' = 0
           ELSE IF tokens[1] \notin Installed
           THEN /\ tasks' = [ tasks EXCEPT ![i] =
                      TaskFails(t, AddError(stored, tokens[1] \o NotInstalledSuffix,
                                            {NotInstalledCode}, clock),
                                "notfound") ]
                /\ running' = 0
           ELSE /\ tasks' = [ tasks EXCEPT ![i] =
                      [ t EXCEPT !.resp = stored, !.command_name = tokens[1],
                                 !.proc = "running", !.open = TRUE,
                                 !.pc = "loop" ] ]
                /\ running' = i
    /\ TasksUnchanged

\* lines 101-103: a step of the try block raises an Exception
TRaises(i, e) ==
    /\ \/ tasks[i].pc = "begin" /\ running = 0
       \/ tasks[i].pc \in {"loop", "wait"} /\ running = i
    /\ LET t == tasks[i]
           stored == [ t.resp EXCEPT !.raw_command = t.cmd ]
       IN  tasks' = [ tasks EXCEPT ![i] =
               TaskFails(t, AddError(stored, e, {}, clock), "exception") ]
    /\ running' = 0
    /\ TasksUnchanged
\* lines 67-77 and 82: the loop gets the next line of its own child; with a
\* progress channel the coroutine suspends in report_progress
TReadLine(i) ==
    /\ running = i
    /\ tasks[i].pc = "loop"
    /\ LET t == tasks[i]
           n == FirstLineLen(t.stdoutPipe, 1, ~t.open)
           l == Translate(SubSeq(t.stdoutPipe, 1, n))
           read == [ t EXCEPT !.stdoutPipe = SubSeq(@, n + 1, Len(@)),
                              !.line_count = @ + 1,
                              !.line = l ]
       IN  /\ n > 0
           /\ IF t.ctx
              THEN /\ tasks' = [ tasks EXCEPT ![i] = [ read EXCEPT !.pc = "progress" ] ]
                   /\ running' = 0
              ELSE /\ tasks' = AppendLine([ tasks EXCEPT ![i] = read ], i, l)
                   /\ running' = i
    /\ TasksUnchanged

\* lines 78-82: report_progress completes, or raises an Exception that is
\* swallowed; the loop resumes the coroutine, which appends the line
TProgressCompletes(i) ==
    /\ running = 0
    /\ tasks[i].pc = "progress"
    /\ tasks' = AppendLine([ tasks EXCEPT ![i].pc = "loop" ], i, tasks[i].line)
    /\ running' = i
    /\ TasksUnchanged

\* line 73: the task is cancelled while suspended in report_progress
TProgressCancelled(i) ==
    /\ tasks[i].pc = "progress"
    /\ tasks' = [ tasks EXCEPT ![i].ret = "raise", ![i].path = "cancelled",
                               ![i].pc = "done" ]
    /\ UNCHANGED running
    /\ TasksUnchanged

\* lines 67 and 85: end of file on stdout, then stderr.read() to its end
TReadEOF(i) ==
    /\ running = i
    /\ tasks[i].pc = "loop"
    /\ tasks[i].stdoutPipe = << >> /\ ~tasks[i].open
    /\ tasks' = [ tasks EXCEPT ![i].stderr_output = Translate(tasks[i].stderrPipe),
                               ![i].stderrPipe = << >>,
                               ![i].pc = "wait" ]
    /\ UNCHANGED running
    /\ TasksUnchanged

\* lines 86-94: wait returns the exit status of the task's own child
TWaitReturns(i) ==
    /\ running = i
    /\ tasks[i].pc = "wait"
    /\ tasks[i].proc = "exited"
    /\ LET t == tasks[i]
       IN  tasks' = [ tasks EXCEPT ![i] =
               [ t EXCEPT !.resp = EndProcessTimer(
                                       [ t.resp EXCEPT
                                           !.raw_output = Concat(t.stdout_lines),
                                           !.raw_error = t.stderr_output,
                                           !.return_code = t.exitCode ],
                                       clock),
                          !.ret = "response", !.path = "normal", !.pc = "done" ] ]
    /\ running' = 0
    /\ TasksUnchanged

\* lines 86 and 96-99: the wait expires while the child is running
TWaitTimesOut(i) ==
    /\ running = i
    /\ tasks[i].pc = "wait"
    /\ tasks[i].proc = "running"
    /\ LET t == tasks[i]
       IN  tasks' = [ tasks EXCEPT ![i] =
               [ TaskFails(t, AddError(t.resp, TimeoutMessage(Timeout),
                                       {TimeoutCode}, clock), "timeout")
                   EXCEPT !.proc = "killed" ] ]
    /\ running' = 0
    /\ TasksUnchanged

\* what the command of task i writes to its stdout, each time, and the
\* status it exits with: every task runs a command of its own
TaskWrite(i) == IF i = 1 THEN << "a", NL >> ELSE << " ", "b", CR, NL >>
TaskExit(i) == IF i = 1 THEN 0 ELSE 1

\* the child of task i writes to its stdout
TChildWrite(i) ==
    /\ tasks[i].proc = "running" /\ tasks[i].open
    /\ Len(tasks[i].written) < MaxWrites
    /\ tasks' = [ tasks EXCEPT ![i].stdoutPipe = @ \o TaskWrite(i),
                               ![i].written = Append(@, TaskWrite(i)) ]
    /\ UNCHANGED running
    /\ TasksUnchanged

\* the child of task i writes w to its stderr
TChildWriteErr(i, w) ==
    /\ tasks[i].proc = "running" /\ tasks[i].open
    /\ Len(tasks[i].errWritten) < MaxErrWrites
    /\ tasks' = [ tasks EXCEPT ![i].stderrPipe = @ \o w,
                               ![i].errWritten = Append(@, w) ]
    /\ UNCHANGED running
    /\ TasksUnchanged

\* the child of task i closes its stdout and stderr and goes on running
TChildCloses(i) ==
    /\ tasks[i].proc = "running" /\ tasks[i].open
    /\ tasks' = [ tasks EXCEPT ![i].open = FALSE ]
    /\ UNCHANGED running
    /\ TasksUnchanged

\* the child of task i exits
TChildExits(i) ==
    /\ tasks[i].proc = "running"
    /\ tasks' = [ tasks EXCEPT ![i].proc = "exited", ![i].exitCode = TaskExit(i),
                               ![i].open = FALSE ]
    /\ UNCHANGED running
    /\ TasksUnchanged

\* the command lines given to concurrent calls
TaskCmds == { << "p", " ", "-c" >>, << "q", " ", "x" >> }

NextLoop ==
    \/ \E i \in TaskIds, c \in TaskCmds, x \in BOOLEAN : TCall(i, c, x)
    \/ \E i \in TaskIds : TStart(i)
    \/ \E i \in TaskIds, e \in ExcTexts : TRaises(i, e)
    \/ \E i \in TaskIds : TReadLine(i)
    \/ \E i \in TaskIds : TProgressCompletes(i)
    \/ \E i \in TaskIds : TProgressCancelled(i)
    \/ \E i \in TaskIds : TReadEOF(i)
    \/ \E i \in TaskIds : TWaitReturns(i)
    \/ \E i \in TaskIds : TWaitTimesOut(i)
    \/ \E i \in TaskIds : TChildWrite(i)
    \/ \E i \in TaskIds, w \in ErrWrites : TChildWriteErr(i, w)
    \/ \E i \in TaskIds : TChildCloses(i)
    \/ \E i \in TaskIds : TChildExits(i)

SpecLoop == InitResponse /\ [][NextLoop]_vars

(***************************************************************************)
(* tools/util.py: log_text called by several threads. Only the write of    *)
(* lines 43-45 is made under _log_file_lock; a thread can be preempted     *)
(* between any two of the other statements.                                *)
(***************************************************************************)
LogUnchanged ==
    UNCHANGED << resp, errLog, timerCalls, execVars, callVars, loopVars >>

\* the name line 38 builds from the clock second: reports/ocular_<second>.log
DefaultLogName(now) == << "reports/ocular_", ToString(now), ".log" >>

\* a thread calls log_text(text, log_file)
LogCall(t, f) ==
    /\ logThreads[t].pc = "idle"
    /\ logThreads[t].calls < MaxLogCalls
    /\ logThreads' = [ logThreads EXCEPT ![t].pc = "check", ![t].log_file = f,
                                         ![t].calls = @ + 1 ]
    /\ UNCHANGED << clock, logPath, logged >>
    /\ LogUnchanged

\* line 37: if _log_file_path is None
LogCheck(t) ==
    /\ logThreads[t].pc = "check"
    /\ logThreads' = [ logThreads EXCEPT ![t].pc =
                          IF logPath = {} THEN "assign" ELSE "read" ]
    /\ UNCHANGED << clock, logPath, logged >>
    /\ LogUnchanged

\* line 38: _log_file_path = f"reports/ocular_{now}.log"
LogAssign(t) ==
    /\ logThreads[t].pc = "assign"
    /\ logPath' = { DefaultLogName(clock) }
    /\ logThreads' = [ logThreads EXCEPT ![t].pc = "read" ]
    /\ UNCHANGED << clock, logged >>
    /\ LogUnchanged

\* line 40: path = log_file if log_file else _log_file_path
LogRead(t) ==
    /\ logThreads[t].pc = "read"
    /\ logThreads' = [ logThreads EXCEPT
                          ![t].path = IF logThreads[t].log_file # {}
                                      THEN logThreads[t].log_file ELSE logPath,
                          ![t].pc = "write" ]
    /\ UNCHANGED << clock, logPath, logged >>
    /\ LogUnchanged

\* lines 43-45: with _log_file_lock: append the line to the file at path
LogWrite(t) ==
    /\ logThreads[t].pc = "write"
    /\ logged' = logged \cup
                     { [ path |-> logThreads[t].path,
                         default |-> logThreads[t].log_file = {} ] }
    /\ logThreads' = [ logThreads EXCEPT ![t].pc = "idle", ![t].path = {},
                                         ![t].log_file = {} ]
    /\ UNCHANGED << clock, logPath >>
    /\ LogUnchanged

\* the clock second changes
LogTick ==
    /\ clock < MaxClock
    /\ clock' = clock + 1
    /\ UNCHANGED logVars
    /\ LogUnchanged

NextLog ==
    \/ LogTick
    \/ \E t \in LogThreadIds, f \in LogFiles : LogCall(t, f)
    \/ \E t \in LogThreadIds : LogCheck(t)
    \/ \E t \in LogThreadIds : LogAssign(t)
    \/ \E t \in LogThreadIds : LogRead(t)
    \/ \E t \in LogThreadIds : LogWrite(t)

SpecLog == InitResponse /\ [][NextLog]_vars

(***************************************************************************)
(* Properties                                                              *)
(***************************************************************************)
Returned == pc = "done" /\ ret = "response"
NotInstalledMessage == Split(cmd)[1] \o NotInstalledSuffix
AppendedTo(old, m) == IF old = << >> THEN m ELSE old \o << NL >> \o m

\* parts joined by sep
RECURSIVE Join(_, _)
Join(parts, sep) ==
    IF parts = << >> THEN << >>
    ELSE IF Len(parts) = 1 THEN parts[1]
    ELSE parts[1] \o sep \o Join(Tail(parts), sep)

\* C1: whenever execute_command has returned, by the missing-executable, the
\* normal, the timeout or the caught-exception path, what it returned is the
\* response object it was given, and that object's process_end_time is set,
\* to a time within the call.
C1_ReturnsTerminalResponse ==
    (pc = "done" /\ path \in {"notfound", "normal", "timeout", "exception"})
        => /\ ret = "response"
           /\ \E t \in resp.process_end_time : t >= callTime /\ t <= clock

C1_Witness ==
    /\ Returned /\ path = "timeout"
    /\ entry.process_end_time = {}

\* C2: a call of execute_command never ends by raising: it ends by
\* returning the response.
C2_NeverRaises == pc = "done" => ret = "response"

\* C3: when the lookup does not find the first token of cmd, no process is
\* spawned, '<name> is not installed on the server' is appended to raw_error,
\* return_code is -1, the timer is stopped, has_errors() is true and
\* raw_output is still empty; and a call whose first token is not installed
\* never spawns a process, however it ends.
C3_MissingExecutable ==
    /\ path = "notfound"
        => /\ Returned
           /\ spawns = 0 /\ proc = "none"
           /\ resp.raw_error = AppendedTo(entry.raw_error, NotInstalledMessage)
           /\ resp.return_code = -1
           /\ resp.process_end_time = {clock}
           /\ HasErrors(resp)
           /\ resp.raw_output = << >>
    /\ (pc \notin {"idle", "begin"} /\ Split(cmd) # << >>
            /\ Split(cmd)[1] \notin Installed)
        => /\ spawns = 0 /\ proc = "none"
           /\ pc = "done" => path \in {"notfound", "exception"}

C3_Witness ==
    /\ path = "notfound"
    /\ entry.raw_error # << >>
    /\ Split(cmd)[1] = << "q" >>

\* C4 as stated: after a normal completion raw_output is exactly the
\* concatenation of the child's stdout writes, newlines as written, and
\* return_code is the child's exit code.
C4_Original ==
    path = "normal"
        => /\ resp.raw_output = Concat(written)
           /\ resp.return_code = exitCode

\* C4: after a normal completion raw_output is the concatenation, in emission
\* order, of everything the child wrote to stdout, nothing dropped, duplicated
\* or reordered, with each line ending "\r\n" or "\r" read as "\n"; and
\* return_code is the child's exit code.
C4_OutputInOrder ==
    path = "normal"
        => /\ resp.raw_output = Translate(Concat(written))
           /\ resp.return_code = exitCode

C4_Witness ==
    /\ path = "normal"
    /\ written = << << " ", "b", CR, NL >>, << "a", NL >> >>
    /\ resp.raw_output = << " ", "b", NL, "a", NL >>
    /\ exitCode = 1

\* C5: a call that spawned the command and returned, without an unexpected
\* failure, more than timeout seconds after it started took the timeout
\* path: has_errors() is true, return_code is 124 and raw_error ends with
\* the message naming the timeout.
C5_TimeoutEnforced ==
    (Returned /\ spawns > 0 /\ path # "exception" /\ clock - callTime > Timeout)
        => /\ path = "timeout"
           /\ HasErrors(resp)
           /\ resp.return_code = TimeoutCode
           /\ resp.raw_error = AppendedTo(entry.raw_error, TimeoutMessage(Timeout))

\* C6: when execute_command returns by the timeout path, neither the shell
\* nor a process the shell command started is still running.
C6_NoProcessLeft ==
    path = "timeout" => proc # "running" /\ gc # "running"

\* C7: a progress report that raises changes nothing: the line it reported
\* is appended like any other, and a call that completes normally after
\* failed reports has consumed all the child wrote and returns the
\* raw_output, raw_error and return_code the child alone determines.
C7_ProgressFailureHarmless ==
    /\ \A i \in DOMAIN progress :
          progress[i].outcome = "failed"
              => /\ Len(stdout_lines) >= i
                 /\ Strip(stdout_lines[i]) = progress[i].message
    /\ (path = "normal" /\ \E i \in DOMAIN progress : progress[i].outcome = "failed")
          => /\ Len(stdout_lines) = Len(progress)
             /\ stdoutPipe = << >>
             /\ resp.raw_output = Translate(Concat(written))
             /\ resp.raw_error = Translate(Concat(errWritten))
             /\ resp.return_code = exitCode

C7_Witness ==
    /\ path = "normal"
    /\ Len(progress) = 2
    /\ progress[1].outcome = "failed" /\ progress[2].outcome = "ok"
    /\ errWritten # << >>

\* C8: after add_error calls with non-empty messages m1..mn on a fresh
\* response, raw_error is m1..mn joined by single newlines in call order:
\* it begins with m1 and ends with mn, so no newline is added in front or
\* behind; and process_end_time is set after every call.
C8_ErrorsJoined ==
    (errLog # << >> /\ \A i \in DOMAIN errLog : errLog[i] # << >>)
        => /\ resp.raw_error = Join(errLog, << NL >>)
           /\ resp.raw_error[1] = errLog[1][1]
           /\ resp.raw_error[Len(resp.raw_error)] =
                  errLog[Len(errLog)][Len(errLog[Len(errLog)])]
           /\ resp.process_end_time # {}

C8_Witness ==
    /\ errLog = << << "x" >>, << "y" >> >>
    /\ resp.raw_error = << "x", NL, "y" >>

\* C9: has_errors() is true exactly when raw_error is non-empty or
\* return_code is not 0, so is_successful() false implies has_errors() true.
C9_HasErrorsIff ==
    /\ HasErrors(resp) <=> (Len(resp.raw_error) > 0 \/ resp.return_code # 0)
    /\ ~IsSuccessful(resp) => HasErrors(resp)

C9_Witness ==
    /\ path = "exception"
    /\ resp.return_code = 0 /\ resp.raw_error # << >>
    /\ IsSuccessful(resp) /\ HasErrors(resp)

\* C10: for the response execute_command returned, by any path, every value
\* of to_dict() is JSON-serializable; each timestamp is a string.
C10_ToDictSerializable ==
    Returned
        => /\ \A k \in DOMAIN ToDict(resp) : JsonSerializable(ToDict(resp)[k])
           /\ ToDict(resp).process_start_time.type = "str"

\* C11: the mapping to_dict() returns has a key for every attribute of the
\* record, process_end_time and process_time_ms included.
C11_ToDictHasEveryAttribute ==
    Returned => FieldNames \subseteq DOMAIN ToDict(resp)

\* C12: ServiceResponse(service=..., target=...), with or without
\* arguments, succeeds and yields return_code 0, empty raw_output, raw_error
\* and raw_command, process_time_ms 0, process_end_time unset and
\* process_start_time set; has_errors() is false on it.
C12_ConstructFromServiceAndTarget ==
    (call.op = "construct"
        /\ {"service", "target"} \subseteq DOMAIN call.args
        /\ DOMAIN call.args \subseteq {"service", "target", "arguments"})
        => /\ result.kind = "ServiceResponse"
           /\ result.value.return_code = 0
           /\ result.value.raw_output = << >>
           /\ result.value.raw_error = << >>
           /\ result.value.raw_command = << >>
           /\ result.value.process_time_ms = 0
           /\ result.value.process_end_time = {}
           /\ result.value.process_start_time \in 0..clock
           /\ ~HasErrors(result.value)

\* C13: from_dict is the inverse of to_dict: from_dict(to_dict(r)) succeeds
\* and has the same service, target, arguments, raw_command, return_code,
\* raw_output and raw_error as r.
C13_FromDictInvertsToDict ==
    (call.op = "from_dict" /\ DOMAIN call.args = DOMAIN ToDict(resp))
        => /\ result.kind = "ServiceResponse"
           /\ \A k \in {"service", "target", "arguments", "raw_command",
                        "return_code", "raw_output", "raw_error"} :
                  result.value[k] = call.args[k]

\* C14: end_process_timer may be called any number of times, directly or
\* through add_error: each call leaves process_start_time unchanged, sets
\* process_end_time to the time of the call, and sets process_time_ms to the
\* milliseconds from the original start to that time, which is not negative.
C14_TimerRecomputes ==
    [][ (timerCalls' # timerCalls \/ errLog' # errLog)
            => /\ resp'.process_start_time = resp.process_start_time
               /\ resp'.process_end_time = {clock'}
               /\ resp'.process_time_ms =
                      (clock' - resp.process_start_time) * 1000
               /\ resp'.process_time_ms >= 0 ]_vars

\* the timer was stopped directly twice and once through add_error, the
\* last time two seconds after the start
C14_Witness ==
    /\ timerCalls = 2
    /\ Len(errLog) = 1
    /\ resp.process_end_time = {2}
    /\ resp.process_time_ms = 2000

\* C15: one execute_command call spawns the command at most once: exactly
\* once when the executable is found and nothing fails before the spawn,
\* never when the executable is missing, and never a second time after a
\* timeout, a non-zero exit or an exception.
C15_SpawnedAtMostOnce ==
    /\ spawns <= 1
    /\ pc \in {"idle", "begin", "which", "spawn"} => spawns = 0
    /\ pc \in {"loop", "progress", "stderr", "wait"} => spawns = 1
    /\ path \in {"normal", "timeout", "cancelled"} => spawns = 1
    /\ path = "notfound" => spawns = 0

\* the call returned after a timeout, and another after a non-zero exit
C15_Witness ==
    /\ Returned
    /\ spawns = 1
    /\ path = "timeout" \/ (path = "normal" /\ resp.return_code # 0)

\* C16 as stated: when the child runs to completion and exits with a
\* non-zero code, no message is appended by add_error, raw_error equals
\* exactly the child's stderr text, raw_output is the full stdout and
\* return_code is the child's exit code.
C16_Original ==
    (path = "normal" /\ exitCode # 0)
        => /\ resp.raw_error = Concat(errWritten)
           /\ resp.raw_output = Translate(Concat(written))
           /\ resp.return_code = exitCode

\* C16: when the child runs to completion and exits with a non-zero code,
\* the response is returned by the normal path: raw_error is the child's
\* stderr text with each "\r\n" or "\r" read as "\n" and nothing appended to
\* it, raw_output is the full stdout read the same way, and return_code is
\* the child's exit code.
C16_NonZeroExitTransparent ==
    (path = "normal" /\ exitCode # 0)
        => /\ ret = "response"
           /\ resp.raw_error = Translate(Concat(errWritten))
           /\ resp.raw_output = Translate(Concat(written))
           /\ resp.return_code = exitCode

\* a child wrote "w\r\n" to stderr and exited with 1, the response having
\* carried an earlier error on entry
C16_Witness ==
    /\ path = "normal"
    /\ exitCode = 1
    /\ entry.raw_error # << >>
    /\ errWritten = << << "w", CR, NL >> >>
    /\ written # << >>
    /\ resp.raw_error = << "w", NL >>
    /\ resp.return_code = 1

\* text m occurs in text
Contains(text, m) ==
    \E i \in 1..(Len(text) - Len(m) + 1) : SubSeq(text, i, i + Len(m) - 1) = m

\* the result is a ServiceResponse of the tool whose raw_error contains m
\* and whose has_errors() is true
ErrorResponse(tool, m) ==
    /\ result.kind = "ServiceResponse"
    /\ result.value.service = tool
    /\ Contains(result.value.raw_error, m)
    /\ HasErrors(result.value)

\* C17: ping_host called with host "" and nmap_scan called with target ""
\* return a ServiceResponse whose service is the tool's name, whose raw_error
\* contains '<parameter> parameter is required' and whose has_errors() is
\* true, and start no external process.
C17_EmptyTargetRejected ==
    /\ (call.op = "ping_host" /\ call.args.host = {""})
           => ErrorResponse("ping", RequiredMessage("host")) /\ result.ran = 0
    /\ (call.op = "nmap_scan" /\ call.args.target = {""})
           => ErrorResponse("nmap", RequiredMessage("target")) /\ result.ran = 0

\* C18: ping_host called with a count below 1 or above 99 returns a response
\* whose raw_error contains 'count must be between 1 and 99' and whose
\* has_errors() is true.
C18_CountOutOfRangeRejected ==
    (call.op = "ping_host" /\ call.args.host = {"localhost"}
        /\ (call.args.count < 1 \/ call.args.count > 99))
        => /\ result.kind # "raise"
           /\ "raw_error" \in DOMAIN result.value
           /\ Contains(result.value.raw_error,
                       << "count must be between 1 and 99" >>)
           /\ HasErrors(result.value)

\* the state of the invocation in the terms of the state machine; NOT_FOUND,
\* COMPLETED, TIMEOUT and EXCEPTION are passed through within the step that
\* reaches a terminal state and are told apart by the return path
Phase(p, via) ==
    CASE p = "idle" -> "NONE"
      [] p \in {"begin", "which"} -> "CREATED"
      [] p = "spawn" -> "EXECUTABLE_CHECKED"
      [] p \in {"loop", "progress", "stderr", "wait"} -> "RUNNING"
      [] p = "done" /\ via = "normal" -> "SUCCESS_TERMINAL"
      [] p = "done" /\ via \in {"notfound", "timeout", "exception"}
            -> "ERROR_TERMINAL"
      [] p = "done" /\ via = "cancelled" -> "RAISED"

\* the transitions of the state machine as stated, a step from CREATED to
\* ERROR_TERMINAL being the one through EXECUTABLE_CHECKED and NOT_FOUND
StatedTransition(from, to, via) ==
    \/ from = to
    \/ from = "NONE" /\ to = "CREATED"
    \/ from = "CREATED" /\ to = "EXECUTABLE_CHECKED"
    \/ from = "CREATED" /\ to = "ERROR_TERMINAL" /\ via = "notfound"
    \/ from = "EXECUTABLE_CHECKED" /\ to = "RUNNING"
    \/ from = "RUNNING" /\ to = "SUCCESS_TERMINAL" /\ via = "normal"
    \/ from = "RUNNING" /\ to = "ERROR_TERMINAL" /\ via \in {"timeout", "exception"}

\* C19 as stated: every invocation follows only the transitions of the state
\* machine; EXCEPTION and TIMEOUT are entered only from RUNNING, and no
\* transition leaves a terminal state.
C19_Original ==
    [][ StatedTransition(Phase(pc, path), Phase(pc', path'), path') ]_vars

\* C19: every invocation follows only the transitions of the state machine
\* and, beside them, CREATED -> EXCEPTION and EXECUTABLE_CHECKED -> EXCEPTION
\* (a failure before the spawn is caught the same way) and the exit from
\* RUNNING by a raised cancellation; TIMEOUT is entered only from RUNNING
\* after one spawn, EXCEPTION from CREATED, EXECUTABLE_CHECKED or RUNNING, and
\* no transition leaves a terminal state or the raised exit.
C19_Transitions ==
    [][ LET from == Phase(pc, path)
            to == Phase(pc', path')
        IN  /\ \/ StatedTransition(from, to, path')
               \/ /\ from \in {"CREATED", "EXECUTABLE_CHECKED"}
                  /\ to = "ERROR_TERMINAL" /\ path' = "exception"
               \/ from = "RUNNING" /\ to = "RAISED"
            /\ (to = "ERROR_TERMINAL" /\ path' = "timeout") => spawns' = 1
            /\ (from = "EXECUTABLE_CHECKED" /\ to = "ERROR_TERMINAL")
                   => spawns' = 0
            /\ from \in {"SUCCESS_TERMINAL", "ERROR_TERMINAL", "RAISED"}
                   => (pc' = pc /\ path' = path /\ ret' = ret /\ resp' = resp)
      ]_vars

\* the exception path was taken before any child was spawned: the command
\* line has no token
C19_Witness ==
    /\ Phase(pc, path) = "ERROR_TERMINAL"
    /\ path = "exception"
    /\ spawns = 0
    /\ Split(cmd) = << >>

\* the k-th stdout line read: appended already, or the one being reported
LineRead(k) == IF k <= Len(stdout_lines) THEN stdout_lines[k] ELSE line

\* C20: with a progress channel the k-th stdout line read produces exactly
\* one progress call, carrying progress = k (also after an earlier call
\* failed), total = expected_lines and message = that line trimmed; the call
\* for line k is made and over before line k+1 is read; the count may pass
\* expected_lines. Without a channel no call is made.
C20_ProgressPerLine ==
    /\ ~ctx => progress = << >>
    /\ ctx => /\ Len(progress) = line_count
              /\ Len(progress) - Len(stdout_lines) \in {0, 1}
              /\ Len(progress) > Len(stdout_lines)
                     => (pc = "progress" \/ path = "cancelled")
              /\ \A k \in DOMAIN progress :
                     /\ progress[k].progress = k
                     /\ progress[k].total = ExpectedLines
                     /\ progress[k].message = Strip(LineRead(k))
                     /\ progress[k].outcome = "pending"
                            => (k = Len(progress) /\ pc = "progress")
    /\ (ctx /\ path = "normal")
           => /\ Concat(stdout_lines) = Translate(Concat(written))
              /\ Len(progress) = Len(stdout_lines)

\* two lines were reported against one expected line, the first report
\* failed, and the second carried the line " b" trimmed
C20_Witness ==
    /\ path = "normal"
    /\ ctx
    /\ Len(progress) = 2
    /\ Len(progress) > ExpectedLines
    /\ progress[1].outcome = "failed"
    /\ progress[2].progress = 2
    /\ stdout_lines[2] = << " ", "b", NL >>
    /\ progress[2].message = << "b" >>

\* C21: a slow progress sink does not block the command: a call suspended
\* in a progress report, also one that never completes, goes on from there
\* (to consume the rest of the child's output and to return).
C21_SlowSinkDoesNotBlock ==
    (pc = "progress") ~> (pc # "progress")

\* C22: add_error called without a code leaves return_code as it was, called
\* with a code (0 included) sets return_code to that code; in both cases
\* service, target, arguments, raw_command, raw_output and process_start_time
\* are unchanged.
C22_AddErrorCode ==
    [][ errLog' # errLog
            => /\ call'.op = "add_error"
               /\ call'.args.return_code = {}
                      => resp'.return_code = resp.return_code
               /\ call'.args.return_code # {}
                      => {resp'.return_code} = call'.args.return_code
               /\ \A f \in {"service", "target", "arguments", "raw_command",
                            "raw_output", "process_start_time"} :
                      resp'[f] = resp[f] ]_vars

\* after a call that set return_code to 1, a call without a code has left it
\* at 1
C22_Witness ==
    /\ Len(errLog) >= 2
    /\ call.op = "add_error"
    /\ call.args.return_code = {}
    /\ resp.return_code = 1

\* C23: raw_command is empty in every state in which the command has not
\* been spawned; in particular it is still empty when execute_command returns
\* through the missing-executable path.
C23_RawCommandEmptyUntilSpawn ==
    spawns = 0 => resp.raw_command = << >>

\* the response task i was given, with the command stored (line 38)
TaskStored(i) == [ NewTask(i).resp EXCEPT !.raw_command = tasks[i].cmd ]

\* C24: for two calls running on one event loop with responses of their own,
\* in every interleaving at the progress reports, each response is what its
\* own call alone makes of it: after a normal completion raw_output holds
\* exactly the lines of the call's own child in order, return_code is that
\* child's exit code; before and on the other paths the response shows the
\* call's own command and error only.
C24_TasksIsolated ==
    \A i \in TaskIds :
        LET t == tasks[i]
        IN  /\ t.pc \in {"idle", "begin"} => t.resp = NewTask(i).resp
            /\ (t.pc \in {"loop", "progress", "wait"} \/ t.path = "cancelled")
                   => t.resp = TaskStored(i)
            /\ t.path = "normal"
                   => t.resp = EndProcessTimer(
                          [ TaskStored(i) EXCEPT
                              !.raw_output = Translate(Concat(t.written)),
                              !.raw_error = Translate(Concat(t.errWritten)),
                              !.return_code = t.exitCode ],
                          clock)
            /\ t.path = "normal" => t.exitCode = TaskExit(i)
            /\ t.path = "notfound"
                   => t.resp = AddError(TaskStored(i),
                                        Split(t.cmd)[1] \o NotInstalledSuffix,
                                        {NotInstalledCode}, clock)
            /\ t.path = "timeout"
                   => t.resp = AddError(TaskStored(i), TimeoutMessage(Timeout),
                                        {TimeoutCode}, clock)
            /\ t.path = "exception"
                   => \E e \in ExcTexts \cup {IndexErrorText} :
                          t.resp = AddError(TaskStored(i), e, {}, clock)

\* both calls reported progress and completed, each with the two lines and
\* the exit code of its own child
C24_Witness ==
    /\ \A i \in TaskIds : tasks[i].path = "normal" /\ tasks[i].ctx
    /\ tasks[1].resp.raw_output = << "a", NL, "a", NL >>
    /\ tasks[2].resp.raw_output = << " ", "b", NL, " ", "b", NL >>
    /\ tasks[1].resp.return_code = 0
    /\ tasks[2].resp.return_code = 1

\* C25: execute_command cannot deadlock with its child: whatever the child
\* writes to stderr before closing stdout, more than the pipe holds
\* included, a call that spawned the command eventually returns or raises.
C25_NoDeadlock ==
    (pc = "loop") ~> (pc = "done")

\* C26: when execute_command returns through an error path (missing
\* executable, timeout, caught exception) on a response that entered with
\* return_code 0, the returned return_code is not 0 and is_successful() is
\* false.
C26_ErrorPathNonZeroCode ==
    (Returned /\ path \in {"notfound", "timeout", "exception"}
        /\ entry.return_code = 0)
        => /\ resp.return_code # 0
           /\ ~IsSuccessful(resp)

\* C27: when execute_command returns through the caught-exception path,
\* has_errors() is true on the returned response, for every exception, one
\* with empty text included.
C27_ExceptionHasErrors ==
    (Returned /\ path = "exception") => HasErrors(resp)

\* C28: when execute_command returns through the caught-exception path after
\* the child was spawned, the child is no longer running.
C28_ExceptionLeavesNoChild ==
    (Returned /\ path = "exception" /\ spawns > 0)
        => proc \notin {"running", "blocked"}

\* C29: on every return path the raw_error the response held when the call
\* started is still contained in raw_error when the call returns.
C29_EntryErrorKept ==
    Returned => Contains(resp.raw_error, entry.raw_error)

\* C30: within one process every log_text call made without an explicit
\* log_file writes to the same file, also when the first calls are made by
\* several threads at the same time and at different clock seconds.
C30_SingletonLogFile ==
    \A a, b \in logged : (a.default /\ b.default) => a.path = b.path

====
